---- MODULE Spec2Model ----
(***************************************************************************)
(* libspc/serialization.c: the XPC ("CPX@", version 5) message codec.      *)
(*                                                                         *)
(* Memory is modelled at byte level.  A byte is a number in 0..255, a      *)
(* uint32_t in memory is four little-endian bytes, and the 8-byte union    *)
(* slots (u64, i64, dbl) are kept as the eight bytes memcpy moves.          *)
(* The writer's buffer is a heap block identified by writer.start; ptr and *)
(* end are kept as distances from start.  The mach message is the byte     *)
(* sequence of its allocation, header included.                            *)
(***************************************************************************)
EXTENDS Integers, Sequences, FiniteSets, TLC

VARIABLES pc, msg, writer, mach_msg, heap, tamper, reader, result

vars == <<pc, msg, writer, mach_msg, heap, tamper, reader, result>>

(***************************************************************************)
(* Bounds of the explored inputs.                                          *)
(***************************************************************************)
MaxItems == 2
MaxArrayLen == 2
MaxDataLen == 5
MaxTruncate == 2
MaxDescriptorCount == 4

(***************************************************************************)
(* Protocol and platform constants.                                        *)
(***************************************************************************)
SPC_TYPE_NULL == 4096
SPC_TYPE_BOOL == 8192
SPC_TYPE_INT64 == 12288
SPC_TYPE_UINT64 == 16384
SPC_TYPE_DOUBLE == 20480
SPC_TYPE_DATA == 32768
SPC_TYPE_STRING == 36864
SPC_TYPE_UUID == 40960
SPC_TYPE_FD == 45056
SPC_TYPE_SEND_PORT == 53248
SPC_TYPE_ARRAY == 57344
SPC_TYPE_DICT == 61440
SPC_TYPE_RECV_PORT == 86016

SizeofHeader == 24
SizeofBody == 4
SizeofPortDescriptor == 12
SizeofOolDescriptor == 16
SizeofOolPortsDescriptor == 16
DescriptorTypeOffset == 11

MACH_MSG_PORT_DESCRIPTOR == 0
MACH_MSG_OOL_DESCRIPTOR == 1
MACH_MSG_OOL_PORTS_DESCRIPTOR == 2
MSGID_CONNECTION_INTERRUPTED == 71

Magic == <<67, 80, 88, 64, 5, 0, 0, 0>>

(***************************************************************************)
(* Byte-level helpers.                                                     *)
(***************************************************************************)
U32Bytes(v) ==
    <<v % 256, (v \div 256) % 256, (v \div 65536) % 256, (v \div 16777216) % 256>>

U32Of(b) == b[1] + 256 * b[2] + 65536 * b[3] + 16777216 * b[4]

Zeros(n) == [i \in 1..n |-> 0]

Fill(n, b) == [i \in 1..n |-> b]

RECURSIVE BitOr(_, _)
BitOr(a, b) ==
    IF a = 0 THEN b
    ELSE IF b = 0 THEN a
    ELSE (IF a % 2 = 1 \/ b % 2 = 1 THEN 1 ELSE 0) + 2 * BitOr(a \div 2, b \div 2)

BitOr32(x, y) == [i \in 1..4 |-> BitOr(x[i], y[i])]

strlen(str) == Len(str)

(***************************************************************************)
(* Sequencing: Do(e, F) is F applied to the value of e, with e computed    *)
(* once, before F, as a C statement is before the next one.                *)
(***************************************************************************)
Do(e, F(_)) == CHOOSE y \in {F(v) : v \in {e}} : TRUE

(***************************************************************************)
(* writer_t (lines 10-16).  start is the block the writer points to, block *)
(* the block the allocator currently holds the bytes in, mem the bytes of  *)
(* that block up to ptr.  realloc either grows the block in place or moves *)
(* it (realloc_moves).  marks and sizes are history: one entry per         *)
(* completed write primitive and per closed container.                     *)
(***************************************************************************)
NewWriter(initial_size, moves) ==
    [start |-> 1, block |-> 1, end |-> initial_size, ptr |-> 0, mem |-> <<>>,
     num_ports |-> 0, ports |-> <<>>,
     heap |-> {"writer.start"}, realloc_moves |-> moves,
     marks |-> <<>>, sizes |-> <<>>]

(***************************************************************************)
(* spc_ensure_space without line 32: writer->start keeps pointing to the   *)
(* block realloc has released.                                             *)
(***************************************************************************)
spc_ensure_space_stale(w, num_bytes) ==
    IF w.ptr + num_bytes > w.end
    THEN LET new_size == w.end + num_bytes
             buf == IF w.realloc_moves THEN w.block + 1 ELSE w.block
         IN  [w EXCEPT !.block = buf, !.end = new_size]
    ELSE w

spc_ensure_space(w, num_bytes) ==
    IF w.ptr + num_bytes > w.end
    THEN LET new_size == w.end + num_bytes
             buf == IF w.realloc_moves THEN w.block + 1 ELSE w.block
         IN  [w EXCEPT !.block = buf, !.start = buf, !.end = new_size]
    ELSE w

(***************************************************************************)
(* memcpy(writer->ptr, buf, len); writer->ptr += len, with the history     *)
(* entry of the primitive that does it.                                    *)
(***************************************************************************)
Put(w, prim, bytes, len) ==
    [w EXCEPT !.mem = w.mem \o bytes,
              !.ptr = w.ptr + Len(bytes),
              !.marks = Append(w.marks, [prim |-> prim, from |-> w.ptr, len |-> len,
                                         to |-> w.ptr + Len(bytes)])]

spc_write(w0, buf, len) ==
    Do(spc_ensure_space(w0, len),
       LAMBDA w : [w |-> Put(w, "raw", SubSeq(buf, 1, len), len), n |-> len])

(***************************************************************************)
(* spc_write_padded with remainder = 4 - len % 4, the outer % 4 of line 49 *)
(* left out.                                                               *)
(***************************************************************************)
spc_write_padded_nomod(w0, buf, len) ==
    LET remainder == 4 - (len % 4)
    IN  Do(spc_ensure_space(w0, len + remainder),
           LAMBDA w : [w |-> Put(w, "padded", SubSeq(buf, 1, len) \o Zeros(remainder),
                                 len),
                       n |-> len + remainder])

spc_write_padded(w0, buf, len) ==
    LET remainder == (4 - (len % 4)) % 4
    IN  Do(spc_ensure_space(w0, len + remainder),
           LAMBDA w : [w |-> Put(w, "padded", SubSeq(buf, 1, len) \o Zeros(remainder),
                                 len),
                       n |-> len + remainder])

spc_write_str(w, str) == spc_write_padded(w, str \o <<0>>, strlen(str) + 1)

spc_write_uint32(w0, val) ==
    Do(spc_ensure_space(w0, 4),
       LAMBDA w : [w |-> Put(w, "u32", U32Bytes(val), 4), n |-> 4])

spc_write_uint64(w0, val) ==
    Do(spc_ensure_space(w0, 8),
       LAMBDA w : [w |-> Put(w, "u64", SubSeq(val, 1, 8), 8), n |-> 8])

spc_write_int64(w0, val) ==
    Do(spc_ensure_space(w0, 8),
       LAMBDA w : [w |-> Put(w, "i64", SubSeq(val, 1, 8), 8), n |-> 8])

spc_write_double(w0, val) ==
    Do(spc_ensure_space(w0, 8),
       LAMBDA w : [w |-> Put(w, "f64", SubSeq(val, 1, 8), 8), n |-> 8])

(***************************************************************************)
(* spc_write_port storing the new port at index 0 instead of num_ports.    *)
(***************************************************************************)
spc_write_port_front(w, port) ==
    [w EXCEPT !.ports = <<port>> \o w.ports,
              !.num_ports = w.num_ports + 1,
              !.heap = w.heap \cup {"writer.ports"}]

spc_write_port(w, port) ==
    [w EXCEPT !.ports = Append(w.ports, port),
              !.num_ports = w.num_ports + 1,
              !.heap = w.heap \cup {"writer.ports"}]

(***************************************************************************)
(* The 4-byte store through writer->start + bytesize_offset of lines 179   *)
(* and 197.  A pointer is a block and a distance; a store into a block     *)
(* that is no longer the writer's leaves the writer's bytes as they were.  *)
(***************************************************************************)
StoreU32(w, block, offset, v) ==
    IF block = w.block /\ offset + 4 <= w.ptr
    THEN [w EXCEPT !.mem = SubSeq(w.mem, 1, offset) \o U32Bytes(v)
                              \o SubSeq(w.mem, offset + 5, Len(w.mem))]
    ELSE w

FillByteSize(w, bytesize_offset, bytes_written) ==
    Do(StoreU32(w, w.start, bytesize_offset, bytes_written),
       LAMBDA p : [p EXCEPT !.sizes = Append(p.sizes, [off |-> bytesize_offset,
                                                       end |-> p.ptr])])

RECURSIVE spc_serialize_value(_, _)
RECURSIVE spc_write_array_loop(_, _, _, _)
RECURSIVE spc_write_dict_loop(_, _, _)

spc_write_array(w, array) ==
    LET bytesize_offset == w.ptr
    IN  Do(spc_write_uint32(w, 0), LAMBDA r0 :
        Do(spc_write_uint32(r0.w, array.length), LAMBDA r1 :
        Do(spc_write_array_loop(r1.w, array, 0, r1.n), LAMBDA r2 :
           [w |-> FillByteSize(r2.w, bytesize_offset, r2.n), n |-> r2.n + 4])))

spc_write_array_loop(w, array, i, bytes_written) ==
    IF i < array.length
    THEN Do(spc_serialize_value(w, array.values[i + 1]), LAMBDA r :
            spc_write_array_loop(r.w, array, i + 1, bytes_written + r.n))
    ELSE [w |-> w, n |-> bytes_written]

spc_write_dict(w, dict) ==
    LET bytesize_offset == w.ptr
    IN  Do(spc_write_uint32(w, 0), LAMBDA r0 :
        Do(spc_write_uint32(r0.w, dict.num_items), LAMBDA r1 :
        Do(spc_write_dict_loop(r1.w, dict.items, r1.n), LAMBDA r2 :
           [w |-> FillByteSize(r2.w, bytesize_offset, r2.n), n |-> r2.n + 4])))

spc_write_dict_loop(w, item, bytes_written) ==
    IF item # <<>>
    THEN Do(spc_write_str(w, Head(item).key), LAMBDA rk :
         Do(spc_serialize_value(rk.w, Head(item).value), LAMBDA rv :
            spc_write_dict_loop(rv.w, Tail(item), bytes_written + rk.n + rv.n)))
    ELSE [w |-> w, n |-> bytes_written]

After(t, r) == [w |-> r.w, n |-> t.n + r.n]

spc_serialize_value(w, value) ==
    Do(spc_write_uint32(w, value.type), LAMBDA t :
       CASE value.type = SPC_TYPE_NULL -> t
         [] value.type = SPC_TYPE_BOOL ->
               Do(spc_write_uint32(t.w, U32Of(SubSeq(value.u64, 1, 4))),
                  LAMBDA r : After(t, r))
         [] value.type = SPC_TYPE_UINT64 ->
               Do(spc_write_uint64(t.w, value.u64), LAMBDA r : After(t, r))
         [] value.type = SPC_TYPE_INT64 ->
               Do(spc_write_int64(t.w, value.i64), LAMBDA r : After(t, r))
         [] value.type = SPC_TYPE_DOUBLE ->
               Do(spc_write_double(t.w, value.dbl), LAMBDA r : After(t, r))
         [] value.type = SPC_TYPE_STRING ->
               Do(spc_write_uint32(t.w, strlen(value.str) + 1), LAMBDA l :
               Do(spc_write_str(l.w, value.str), LAMBDA s :
                  [w |-> s.w, n |-> t.n + l.n + s.n]))
         [] value.type = SPC_TYPE_ARRAY ->
               Do(spc_write_array(t.w, value.array), LAMBDA r : After(t, r))
         [] value.type = SPC_TYPE_DICT ->
               Do(spc_write_dict(t.w, value.dict), LAMBDA r : After(t, r))
         [] value.type \in {SPC_TYPE_FD, SPC_TYPE_SEND_PORT, SPC_TYPE_RECV_PORT} ->
               [w |-> spc_write_port(t.w, value.port), n |-> t.n]
         [] value.type = SPC_TYPE_UUID ->
               Do(spc_write(t.w, value.ptr, 16), LAMBDA r : After(t, r))
         [] value.type = SPC_TYPE_DATA ->
               Do(spc_write_uint32(t.w, value.data.size), LAMBDA l :
               Do(spc_write_padded(l.w, value.data.ptr, value.data.size), LAMBDA d :
                  [w |-> d.w, n |-> t.n + l.n + d.n]))
         [] OTHER -> t)

(***************************************************************************)
(* spc_serialize (lines 201-257).  The mach message is returned as the     *)
(* bytes of its allocation; junk is the content malloc left in the bytes   *)
(* the function never stores to (msgh_voucher_port, descriptor padding).   *)
(***************************************************************************)
MACH_MSGH_BITS_COMPLEX == <<0, 0, 0, 128>>

MACH_MSGH_BITS(remote, local) ==
    LET r == U32Bytes(remote)
        l == U32Bytes(local)
    IN  BitOr32(r, <<0, l[1], l[2], l[3]>>)

PortDescriptor(port, junk) ==
    port.name \o Fill(4, junk) \o Fill(2, junk)
        \o <<port.type % 256>> \o <<MACH_MSG_PORT_DESCRIPTOR>>

RECURSIVE WriteDescriptors(_, _, _)
WriteDescriptors(ports, i, junk) ==
    IF i < Len(ports)
    THEN PortDescriptor(ports[i + 1], junk) \o WriteDescriptors(ports, i + 1, junk)
    ELSE <<>>

MachHeader(bits, m, actual_size, junk) ==
    BitOr32(bits, MACH_MSGH_BITS(m.remote_port.type, m.local_port.type))
        \o U32Bytes(actual_size)
        \o m.remote_port.name
        \o m.local_port.name
        \o Fill(4, junk)
        \o U32Bytes(m.id)

(***************************************************************************)
(* The size of line 223 without sizeof(mach_msg_body_t).                   *)
(***************************************************************************)
ActualSizeNoBody(num_ports, content_size) ==
    IF num_ports # 0
    THEN SizeofHeader + num_ports * SizeofPortDescriptor + content_size
    ELSE SizeofHeader + content_size

ActualSize(num_ports, content_size) ==
    IF num_ports # 0
    THEN SizeofHeader + SizeofBody + num_ports * SizeofPortDescriptor + content_size
    ELSE SizeofHeader + content_size

BuildMessage(m, w, junk) ==
    LET content_size == w.ptr
        actual_size == ActualSize(w.num_ports, content_size)
        bits == IF w.num_ports # 0 THEN MACH_MSGH_BITS_COMPLEX ELSE <<0, 0, 0, 0>>
        descriptors ==
            IF w.num_ports # 0
            THEN U32Bytes(w.num_ports) \o WriteDescriptors(w.ports, 0, junk)
            ELSE <<>>
    IN  [mach_msg |-> MachHeader(bits, m, actual_size, junk) \o descriptors
                        \o SubSeq(w.mem, 1, content_size),
         writer |-> [w EXCEPT !.heap = (w.heap \ {"writer.start"}) \cup {"mach_msg"}]]

spc_serialize(m, moves, junk) ==
    LET initial_size == m.content.num_items * 32
    IN  Do(spc_write(NewWriter(initial_size, moves), Magic, 8), LAMBDA r1 :
        Do(spc_write_uint32(r1.w, SPC_TYPE_DICT), LAMBDA r2 :
        Do(spc_write_dict(r2.w, m.content), LAMBDA r3 :
           BuildMessage(m, r3.w, junk))))

(***************************************************************************)
(* reader_t (lines 18-24) over the received message m = [bytes, junk]:     *)
(* bytes is the message's allocation and junk what a load outside it       *)
(* yields.  ptr and end are distances from the message start.  st is the   *)
(* state of the process ("run", "abort", "exit", "segv").  History: oob    *)
(* records that a byte outside [message, message + msgh_size) has been     *)
(* loaded, overrun that a read was asked to advance ptr past end.          *)
(***************************************************************************)
NULL == 0 - 1

SPC_NULL_PORT == [name |-> <<0, 0, 0, 0>>, type |-> 0]

Undef == [type |-> 0]

Min(S) == CHOOSE x \in S : \A y \in S : x <= y

Mem(m, i) == IF i >= 0 /\ i < Len(m.bytes) THEN m.bytes[i + 1] ELSE m.junk

Load(m, at, len) == [i \in 1..len |-> Mem(m, at + i - 1)]

Touch(r, at, len) ==
    [r EXCEPT !.oob = r.oob \/ (len > 0 /\ (at < 0 \/ at + len > r.end))]

(***************************************************************************)
(* spc_read returning NULL on the failed bounds test instead of calling    *)
(* abort(): its callers dereference the result.                            *)
(***************************************************************************)
spc_read_null(r, len) ==
    IF r.st # "run" THEN [r |-> r, res |-> NULL]
    ELSE IF r.ptr + len > r.end
         THEN [r |-> [r EXCEPT !.st = "segv", !.overrun = TRUE], res |-> NULL]
         ELSE [r |-> [r EXCEPT !.ptr = r.ptr + len], res |-> r.ptr]

spc_read(r, len) ==
    IF r.st # "run" THEN [r |-> r, res |-> NULL]
    ELSE IF r.ptr + len > r.end
         THEN [r |-> [r EXCEPT !.st = "abort", !.overrun = TRUE], res |-> NULL]
         ELSE [r |-> [r EXCEPT !.ptr = r.ptr + len], res |-> r.ptr]

Deref(m, a, len, none) ==
    IF a.r.st # "run" THEN [r |-> a.r, v |-> none]
    ELSE [r |-> Touch(a.r, a.res, len), v |-> Load(m, a.res, len)]

spc_read_uint64(m, r) == Do(spc_read(r, 8), LAMBDA a : Deref(m, a, 8, Zeros(8)))

spc_read_int64(m, r) == Do(spc_read(r, 8), LAMBDA a : Deref(m, a, 8, Zeros(8)))

spc_read_double(m, r) == Do(spc_read(r, 8), LAMBDA a : Deref(m, a, 8, Zeros(8)))

spc_read_uint32(m, r) ==
    Do(spc_read(r, 4), LAMBDA a :
    Do(Deref(m, a, 4, Zeros(4)), LAMBDA d : [r |-> d.r, v |-> U32Of(d.v)]))

spc_read_padded(r, size) ==
    LET remainder == (4 - (size % 4)) % 4
    IN  spc_read(r, size + remainder)

spc_read_str(m, r) ==
    IF r.st # "run" THEN [r |-> r, res |-> NULL]
    ELSE Do({i \in r.ptr..(r.end - 1) : Mem(m, i) = 0}, LAMBDA nuls :
            IF nuls = {}
            THEN [r |-> Touch(r, r.ptr, r.end - r.ptr), res |-> NULL]
            ELSE Do(Min(nuls) - r.ptr + 1, LAMBDA len :
                    spc_read_padded(Touch(r, r.ptr, len), len)))

strdup(m, r, s) ==
    IF r.st # "run" THEN [r |-> r, str |-> <<>>]
    ELSE IF s = NULL THEN [r |-> [r EXCEPT !.st = "segv"], str |-> <<>>]
    ELSE Do(Min({i \in s..(s + Len(m.bytes)) : Mem(m, i) = 0}), LAMBDA nul :
            [r |-> Touch(r, s, nul - s + 1), str |-> Load(m, s, nul - s)])

spc_reader_next_port(r) ==
    IF r.next_port >= r.num_ports
    THEN [r |-> r, port |-> SPC_NULL_PORT]
    ELSE [r |-> [r EXCEPT !.next_port = r.next_port + 1],
          port |-> r.ports[r.next_port + 1]]

spc_array_create == [length |-> 0, values |-> <<>>]

spc_array_set_value(array, i, value) ==
    LET n == IF i + 1 > array.length THEN i + 1 ELSE array.length
    IN  [length |-> n,
         values |-> [j \in 1..n |->
                       IF j = i + 1 THEN value
                       ELSE IF j <= array.length THEN array.values[j]
                       ELSE [type |-> SPC_TYPE_NULL]]]

spc_dictionary_create == [num_items |-> 0, items |-> <<>>]

RECURSIVE spc_deserialize_value(_, _)
RECURSIVE spc_deserialize_array_loop(_, _, _, _, _)
RECURSIVE spc_deserialize_dict_loop(_, _, _, _)

spc_deserialize_array(m, r) ==
    Do(spc_read_uint32(m, r), LAMBDA s :
    Do(spc_read_uint32(m, s.r), LAMBDA l :
       spc_deserialize_array_loop(m, l.r, spc_array_create, 0, l.v)))

spc_deserialize_array_loop(m, r, array, i, length) ==
    IF r.st = "run" /\ i < length
    THEN Do(spc_deserialize_value(m, r), LAMBDA v :
         Do(IF v.r.st = "run" THEN spc_array_set_value(array, i, v.value) ELSE array,
            LAMBDA a : spc_deserialize_array_loop(m, v.r, a, i + 1, length)))
    ELSE [r |-> r, array |-> array]

spc_deserialize_dict(m, r) ==
    Do(spc_read_uint32(m, r), LAMBDA s :
    Do(spc_read_uint32(m, s.r), LAMBDA n :
       spc_deserialize_dict_loop(m, n.r,
                                 [spc_dictionary_create EXCEPT !.num_items = n.v], 0)))

spc_deserialize_dict_loop(m, r, dict, i) ==
    IF r.st = "run" /\ i < dict.num_items
    THEN Do(spc_read_str(m, r), LAMBDA s :
         Do(strdup(m, s.r, s.res), LAMBDA k :
         Do(spc_deserialize_value(m, k.r), LAMBDA v :
         Do(IF v.r.st = "run"
            THEN [dict EXCEPT !.items = <<[key |-> k.str, value |-> v.value]>>
                                           \o dict.items]
            ELSE dict,
            LAMBDA d : spc_deserialize_dict_loop(m, v.r, d, i + 1)))))
    ELSE [r |-> r, dict |-> dict]

DecodeValue(m, r, type) ==
    CASE type = SPC_TYPE_NULL -> [r |-> r, value |-> [type |-> type]]
      [] type = SPC_TYPE_BOOL ->
            Do(spc_read_uint32(m, r), LAMBDA a :
               [r |-> a.r, value |-> [type |-> type, u64 |-> U32Bytes(a.v) \o Zeros(4)]])
      [] type = SPC_TYPE_UINT64 ->
            Do(spc_read_uint64(m, r), LAMBDA a :
               [r |-> a.r, value |-> [type |-> type, u64 |-> a.v]])
      [] type = SPC_TYPE_INT64 ->
            Do(spc_read_int64(m, r), LAMBDA a :
               [r |-> a.r, value |-> [type |-> type, i64 |-> a.v]])
      [] type = SPC_TYPE_DOUBLE ->
            Do(spc_read_double(m, r), LAMBDA a :
               [r |-> a.r, value |-> [type |-> type, dbl |-> a.v]])
      [] type = SPC_TYPE_STRING ->
            Do(spc_read_uint32(m, r), LAMBDA l :
            Do(spc_read_str(m, l.r), LAMBDA s :
            Do(strdup(m, s.r, s.res), LAMBDA d :
               [r |-> d.r, value |-> [type |-> type, str |-> d.str]])))
      [] type = SPC_TYPE_ARRAY ->
            Do(spc_deserialize_array(m, r), LAMBDA a :
               [r |-> a.r, value |-> [type |-> type, array |-> a.array]])
      [] type = SPC_TYPE_DICT ->
            Do(spc_deserialize_dict(m, r), LAMBDA d :
               [r |-> d.r, value |-> [type |-> type, dict |-> d.dict]])
      [] type = SPC_TYPE_SEND_PORT ->
            Do(spc_reader_next_port(r), LAMBDA p :
               [r |-> p.r, value |-> [type |-> type, port |-> p.port]])
      [] type = SPC_TYPE_RECV_PORT ->
            Do(spc_reader_next_port(r), LAMBDA p :
               [r |-> p.r, value |-> [type |-> type, port |-> p.port]])
      [] type = SPC_TYPE_UUID ->
            Do(spc_read(r, 16), LAMBDA a :
            Do(Deref(m, a, 16, <<>>), LAMBDA d :
               [r |-> d.r, value |-> [type |-> type, ptr |-> d.v]]))
      [] type = SPC_TYPE_DATA ->
            Do(spc_read_uint32(m, r), LAMBDA z :
            Do(spc_read_padded(z.r, z.v), LAMBDA a :
            Do(Deref(m, a, z.v, <<>>), LAMBDA d :
               [r |-> d.r,
                value |-> [type |-> type, data |-> [size |-> z.v, ptr |-> d.v]]])))
      [] OTHER -> [r |-> [r EXCEPT !.st = "exit"], value |-> Undef]

spc_deserialize_value(m, r) ==
    Do(spc_read_uint32(m, r), LAMBDA t :
       IF t.r.st # "run" THEN [r |-> t.r, value |-> Undef]
       ELSE DecodeValue(m, t.r, t.v))

(***************************************************************************)
(* spc_deserialize (lines 402-469).  ret is "msg" when a message is        *)
(* returned, "NULL" when NULL is returned, and otherwise the way the       *)
(* process ended inside the call.                                          *)
(***************************************************************************)
MACH_MSGH_BITS_REMOTE(bits) == bits[1] % 32

MACH_MSGH_BITS_LOCAL(bits) == bits[2] % 32

IsComplex(bits) == bits[4] >= 128

NewReader(msgh_size) ==
    [end |-> msgh_size, ptr |-> SizeofHeader, next_port |-> 0, num_ports |-> 0,
     ports |-> <<>>, st |-> "run", oob |-> FALSE, overrun |-> FALSE, heap |-> {}]

ReadPortDescriptor(m, d) ==
    IF d.r.st # "run" THEN d.r
    ELSE [d.r EXCEPT !.ports = Append(d.r.ports, [name |-> Load(m, d.res, 4),
                                                  type |-> Mem(m, d.res + 10)]),
                     !.num_ports = d.r.num_ports + 1]

ReadDescriptor(m, r, type) ==
    CASE type = MACH_MSG_PORT_DESCRIPTOR ->
            Do(spc_read([r EXCEPT !.heap = r.heap \cup {"reader.ports"}],
                        SizeofPortDescriptor),
               LAMBDA d : ReadPortDescriptor(m, d))
      [] type = MACH_MSG_OOL_DESCRIPTOR -> spc_read(r, SizeofOolDescriptor).r
      [] type = MACH_MSG_OOL_PORTS_DESCRIPTOR -> spc_read(r, SizeofOolPortsDescriptor).r
      [] OTHER -> [r EXCEPT !.st = "exit"]

RECURSIVE ReadDescriptors(_, _, _, _)
ReadDescriptors(m, r, i, body) ==
    IF r.st = "run" /\ i < U32Of(Load(m, body, 4))
    THEN Do(ReadDescriptor(m, Touch(r, r.ptr + DescriptorTypeOffset, 1),
                           Mem(m, r.ptr + DescriptorTypeOffset)),
            LAMBDA n : ReadDescriptors(m, n, i + 1, body))
    ELSE r

Return(ret, err, r, m) == [ret |-> ret, err |-> err, reader |-> r, msg |-> m]

ReadBody(m, r, msgh_bits) ==
    IF IsComplex(msgh_bits)
    THEN Do(spc_read(r, SizeofBody), LAMBDA body :
            IF body.r.st # "run" THEN body.r
            ELSE ReadDescriptors(m, Touch(body.r, body.res, SizeofBody), 0, body.res))
    ELSE r

NewMessage(m, dict) ==
    LET msgh_bits == Load(m, 0, 4)
        msgh_remote_port == Load(m, 8, 4)
        msgh_id == U32Of(Load(m, 20, 4))
    IN  [remote_port |-> [name |-> msgh_remote_port,
                          type |-> MACH_MSGH_BITS_REMOTE(msgh_bits)],
         local_port |-> [name |-> msgh_remote_port,
                         type |-> MACH_MSGH_BITS_LOCAL(msgh_bits)],
         id |-> msgh_id,
         content |-> dict]

ReadRoot(m, v) ==
    IF v.r.st # "run" THEN Return(v.r.st, "", v.r, <<>>)
    ELSE IF v.value.type # SPC_TYPE_DICT
    THEN Return("NULL", "Invalid XPC message type", v.r, <<>>)
    ELSE Return("msg", "", [v.r EXCEPT !.heap = v.r.heap \cup {"msg", "msg.content"}],
                <<NewMessage(m, v.value.dict)>>)

ReadEnvelope(m, mg) ==
    IF mg.r.st # "run" THEN Return(mg.r.st, "", mg.r, <<>>)
    ELSE IF Load(m, mg.res, 8) # Magic
    THEN Return("NULL", "Invalid XPC message header", Touch(mg.r, mg.res, 8), <<>>)
    ELSE Do(spc_deserialize_value(m, Touch(mg.r, mg.res, 8)), LAMBDA v : ReadRoot(m, v))

spc_deserialize(m) ==
    LET msgh_bits == Load(m, 0, 4)
        msgh_size == U32Of(Load(m, 4, 4))
        msgh_id == U32Of(Load(m, 20, 4))
    IN  IF msgh_id = MSGID_CONNECTION_INTERRUPTED
        THEN Return("exit", "Connection interrupted",
                    [NewReader(msgh_size) EXCEPT !.st = "exit"], <<>>)
        ELSE Do(ReadBody(m, NewReader(msgh_size), msgh_bits), LAMBDA r1 :
             Do(spc_read(r1, 8), LAMBDA mg : ReadEnvelope(m, mg)))

(***************************************************************************)
(* The messages handed to spc_serialize: every tag of the closed set, DATA *)
(* of every length up to MaxDataLen, arrays up to MaxArrayLen, nested      *)
(* containers, and root dictionaries of up to MaxItems items (duplicate    *)
(* keys included).                                                         *)
(***************************************************************************)
KeyK == <<107>>

KeyAbc == <<97, 98, 99>>

Port(name, type) == [name |-> name, type |-> type]

Item(key, value) == [key |-> key, value |-> value]

Dict(items) == [num_items |-> Len(items), items |-> items]

Array(values) == [length |-> Len(values), values |-> values]

StringValue(str) == [type |-> SPC_TYPE_STRING, str |-> str]

DataValue(n) ==
    [type |-> SPC_TYPE_DATA, data |-> [size |-> n, ptr |-> [i \in 1..n |-> 16 + i]]]

PortValue(type, port) == [type |-> type, port |-> port]

ArrayValue(values) == [type |-> SPC_TYPE_ARRAY, array |-> Array(values)]

DictValue(items) == [type |-> SPC_TYPE_DICT, dict |-> Dict(items)]

SeqsUpTo(S, n) == UNION {[1..k -> S] : k \in 0..n}

Leaves ==
    {[type |-> SPC_TYPE_NULL],
     [type |-> SPC_TYPE_BOOL, u64 |-> <<1, 0, 0, 0, 0, 0, 0, 0>>],
     [type |-> SPC_TYPE_UINT64, u64 |-> <<8, 7, 6, 5, 4, 3, 2, 1>>],
     [type |-> SPC_TYPE_INT64, i64 |-> <<254, 255, 255, 255, 255, 255, 255, 255>>],
     [type |-> SPC_TYPE_DOUBLE, dbl |-> <<0, 0, 0, 0, 0, 0, 248, 63>>],
     StringValue(<<118>>),
     StringValue(KeyAbc),
     [type |-> SPC_TYPE_UUID, ptr |-> [i \in 1..16 |-> 32 + i]],
     PortValue(SPC_TYPE_FD, Port(<<3, 1, 0, 0>>, 17)),
     PortValue(SPC_TYPE_SEND_PORT, Port(<<239, 190, 173, 222>>, 17)),
     PortValue(SPC_TYPE_RECV_PORT, Port(<<7, 2, 0, 0>>, 16))}

Elements ==
    {StringValue(<<118>>),
     PortValue(SPC_TYPE_SEND_PORT, Port(<<9, 3, 0, 0>>, 19)),
     DictValue(<<Item(KeyK, PortValue(SPC_TYPE_RECV_PORT, Port(<<11, 4, 0, 0>>, 16)))>>)}

Values ==
    Leaves
    \cup {DataValue(n) : n \in 0..MaxDataLen}
    \cup {ArrayValue(vs) : vs \in SeqsUpTo(Elements, MaxArrayLen)}
    \cup {DictValue(<<Item(KeyAbc, DataValue(3)),
                      Item(KeyK, ArrayValue(<<PortValue(SPC_TYPE_SEND_PORT,
                                                        Port(<<13, 5, 0, 0>>, 20)),
                                              [type |-> SPC_TYPE_NULL]>>))>>)}

CoreItems ==
    {Item(KeyK, StringValue(<<118>>)),
     Item(KeyAbc, PortValue(SPC_TYPE_SEND_PORT, Port(<<239, 190, 173, 222>>, 17))),
     Item(KeyK, PortValue(SPC_TYPE_RECV_PORT, Port(<<7, 2, 0, 0>>, 16))),
     Item(KeyAbc, DataValue(1)),
     Item(KeyK, ArrayValue(<<PortValue(SPC_TYPE_SEND_PORT, Port(<<9, 3, 0, 0>>, 19)),
                             StringValue(KeyAbc)>>))}

Contents ==
    {Dict(<<Item(KeyK, v)>>) : v \in Values}
    \cup {Dict(items) : items \in SeqsUpTo(CoreItems, MaxItems)}

Headers ==
    {[remote_port |-> Port(<<3, 1, 0, 0>>, 19), local_port |-> Port(<<7, 2, 0, 0>>, 21),
      id |-> 1],
     [remote_port |-> Port(<<5, 6, 0, 0>>, 17), local_port |-> Port(<<0, 0, 0, 0>>, 0),
      id |-> 1000]}

Messages ==
    {[remote_port |-> h.remote_port, local_port |-> h.local_port, id |-> h.id,
      content |-> c] : h \in Headers, c \in Contents}

MallocJunk == {0, 170}

StrayBytes == {0, 1, 2, 3}

(***************************************************************************)
(* The state machine: a caller serializes msg; the bytes travel to the     *)
(* receiving process, possibly altered by the peer that sends them; the    *)
(* receiver deserializes them.                                             *)
(***************************************************************************)
NoTamper == [kind |-> "none", n |-> 0]

NoResult == [ret |-> "none", err |-> "", msg |-> <<>>]

Init ==
    /\ pc = "start"
    /\ msg \in Messages
    /\ writer = [NewWriter(0, FALSE) EXCEPT !.heap = {}]
    /\ mach_msg = <<>>
    /\ heap = {}
    /\ tamper = NoTamper
    /\ reader = NewReader(0)
    /\ result = NoResult

Serialize ==
    /\ pc = "start"
    /\ \E moves \in BOOLEAN, junk \in MallocJunk :
          LET s == spc_serialize(msg, moves, junk)
          IN  /\ writer' = s.writer
              /\ mach_msg' = s.mach_msg
              /\ heap' = s.writer.heap
    /\ pc' = "serialized"
    /\ UNCHANGED <<msg, tamper, reader, result>>

msgh_size(bytes) == U32Of(SubSeq(bytes, 5, 8))

EnvelopeOffset(bytes) ==
    IF IsComplex(SubSeq(bytes, 1, 4))
    THEN SizeofHeader + SizeofBody
            + U32Of(SubSeq(bytes, SizeofHeader + 1, SizeofHeader + 4)) * SizeofPortDescriptor
    ELSE SizeofHeader

Patch(bytes, at, new) ==
    [i \in 1..Len(bytes) |->
        IF i > at /\ i <= at + Len(new) THEN new[i - at] ELSE bytes[i]]

PeerTruncate ==
    /\ pc = "serialized"
    /\ tamper = NoTamper
    /\ \E n \in 1..MaxTruncate :
          /\ mach_msg' = Patch(SubSeq(mach_msg, 1, Len(mach_msg) - n), 4,
                               U32Bytes(msgh_size(mach_msg) - n))
          /\ tamper' = [kind |-> "truncate", n |-> n]
    /\ UNCHANGED <<pc, msg, writer, heap, reader, result>>

PeerCorruptMagic ==
    /\ pc = "serialized"
    /\ tamper = NoTamper
    /\ mach_msg' = Patch(mach_msg, EnvelopeOffset(mach_msg), <<88>>)
    /\ tamper' = [kind |-> "magic", n |-> 0]
    /\ UNCHANGED <<pc, msg, writer, heap, reader, result>>

PeerCorruptRoot ==
    /\ pc = "serialized"
    /\ tamper = NoTamper
    /\ mach_msg' = Patch(mach_msg, EnvelopeOffset(mach_msg) + 8, U32Bytes(SPC_TYPE_NULL))
    /\ tamper' = [kind |-> "root", n |-> 0]
    /\ UNCHANGED <<pc, msg, writer, heap, reader, result>>

PeerSetDescriptorCount ==
    /\ pc = "serialized"
    /\ tamper = NoTamper
    /\ IsComplex(SubSeq(mach_msg, 1, 4))
    /\ \E c \in 0..MaxDescriptorCount :
          /\ c # U32Of(SubSeq(mach_msg, SizeofHeader + 1, SizeofHeader + 4))
          /\ mach_msg' = Patch(mach_msg, SizeofHeader, U32Bytes(c))
          /\ tamper' = [kind |-> "count", n |-> c]
    /\ UNCHANGED <<pc, msg, writer, heap, reader, result>>

PeerSetDescriptorType ==
    /\ pc = "serialized"
    /\ tamper = NoTamper
    /\ IsComplex(SubSeq(mach_msg, 1, 4))
    /\ \E t \in 1..3 :
          /\ mach_msg' = Patch(mach_msg,
                               SizeofHeader + SizeofBody + DescriptorTypeOffset, <<t>>)
          /\ tamper' = [kind |-> "type", n |-> t]
    /\ UNCHANGED <<pc, msg, writer, heap, reader, result>>

PeerInterrupt ==
    /\ pc = "serialized"
    /\ tamper = NoTamper
    /\ mach_msg' = Patch(mach_msg, 20, U32Bytes(MSGID_CONNECTION_INTERRUPTED))
    /\ tamper' = [kind |-> "id", n |-> MSGID_CONNECTION_INTERRUPTED]
    /\ UNCHANGED <<pc, msg, writer, heap, reader, result>>

Deserialize ==
    /\ pc = "serialized"
    /\ \E junk \in StrayBytes :
          LET d == spc_deserialize([bytes |-> mach_msg, junk |-> junk])
          IN  /\ reader' = d.reader
              /\ result' = [ret |-> d.ret, err |-> d.err, msg |-> d.msg]
              /\ heap' = heap \cup d.reader.heap
    /\ pc' = "done"
    /\ UNCHANGED <<msg, writer, mach_msg, tamper>>

Next ==
    \/ Serialize
    \/ PeerTruncate
    \/ PeerCorruptMagic
    \/ PeerCorruptRoot
    \/ PeerSetDescriptorCount
    \/ PeerSetDescriptorType
    \/ PeerInterrupt
    \/ Deserialize

Spec == Init /\ [][Next]_vars

(***************************************************************************)
(* What the properties speak of.                                           *)
(***************************************************************************)
IsPortType(type) == type \in {SPC_TYPE_FD, SPC_TYPE_SEND_PORT, SPC_TYPE_RECV_PORT}

RECURSIVE PortsOfValue(_)
RECURSIVE PortsOfValues(_)
RECURSIVE PortsOfItems(_)

PortsOfValue(v) ==
    CASE IsPortType(v.type) -> <<v.port>>
      [] v.type = SPC_TYPE_ARRAY -> PortsOfValues(v.array.values)
      [] v.type = SPC_TYPE_DICT -> PortsOfItems(v.dict.items)
      [] OTHER -> <<>>

PortsOfValues(vs) ==
    IF vs = <<>> THEN <<>> ELSE PortsOfValue(Head(vs)) \o PortsOfValues(Tail(vs))

PortsOfItems(items) ==
    IF items = <<>> THEN <<>>
    ELSE PortsOfValue(Head(items).value) \o PortsOfItems(Tail(items))

RECURSIVE ContainersOfValue(_)
RECURSIVE ContainersOfValues(_)
RECURSIVE ContainersOfItems(_)

ContainersOfValue(v) ==
    CASE v.type = SPC_TYPE_ARRAY -> 1 + ContainersOfValues(v.array.values)
      [] v.type = SPC_TYPE_DICT -> 1 + ContainersOfItems(v.dict.items)
      [] OTHER -> 0

ContainersOfValues(vs) ==
    IF vs = <<>> THEN 0 ELSE ContainersOfValue(Head(vs)) + ContainersOfValues(Tail(vs))

ContainersOfItems(items) ==
    IF items = <<>> THEN 0
    ELSE ContainersOfValue(Head(items).value) + ContainersOfItems(Tail(items))

DescriptorAt(bytes, i) ==
    LET at == SizeofHeader + SizeofBody + (i - 1) * SizeofPortDescriptor
    IN  [name |-> SubSeq(bytes, at + 1, at + 4),
         disposition |-> bytes[at + 11],
         type |-> bytes[at + 12]]

EmittedDescriptors(bytes) ==
    IF IsComplex(SubSeq(bytes, 1, 4))
    THEN [i \in 1..U32Of(SubSeq(bytes, SizeofHeader + 1, SizeofHeader + 4)) |->
             DescriptorAt(bytes, i)]
    ELSE <<>>

Written == pc \in {"serialized", "done"}

Sent == pc = "serialized" /\ tamper = NoTamper

Returned == pc = "done" /\ result.ret \in {"msg", "NULL"}

(***************************************************************************)
(* C1: round trip.  Deserializing the message spc_serialize built returns  *)
(* a message whose content equals the original content: same tags, values, *)
(* container order and ports.                                              *)
(***************************************************************************)
C1_RoundTrip ==
    (pc = "done" /\ tamper = NoTamper)
        => (result.ret = "msg" /\ result.msg[1].content = msg.content)

(***************************************************************************)
(* C2: the port descriptors after the body are the ports of the FD,        *)
(* SEND_PORT and RECV_PORT values of a pre-order walk of the root          *)
(* dictionary, in that order, each with its name and type, and             *)
(* descriptor_count is their number.                                       *)
(***************************************************************************)
C2_PortDescriptors ==
    Sent =>
        LET ps == PortsOfItems(msg.content.items)
            ds == EmittedDescriptors(mach_msg)
        IN  /\ Len(ds) = Len(ps)
            /\ \A i \in 1..Len(ps) :
                  ds[i] = [name |-> ps[i].name, disposition |-> ps[i].type,
                           type |-> MACH_MSG_PORT_DESCRIPTOR]

C2_Witness ==
    /\ Sent
    /\ msg.content.items # <<>>
    /\ msg.content.items[1].value.type = SPC_TYPE_ARRAY
    /\ LET ps == PortsOfItems(msg.content.items)
       IN  Len(ps) >= 2 /\ ps[1] # ps[2]

(***************************************************************************)
(* C3: size consistency.  Every container written, the root included, has  *)
(* in its byte-size field the number of bytes between the end of that      *)
(* field and the end of the container, also when realloc moved the buffer  *)
(* while its children were written.                                        *)
(***************************************************************************)
C3_SizeConsistency ==
    Written =>
        /\ Len(writer.sizes) = 1 + ContainersOfItems(msg.content.items)
        /\ \A i \in 1..Len(writer.sizes) :
              LET c == writer.sizes[i]
              IN  U32Of(SubSeq(writer.mem, c.off + 1, c.off + 4)) = c.end - (c.off + 4)

C3_Witness ==
    /\ pc = "serialized"
    /\ writer.realloc_moves
    /\ writer.start > 1
    /\ writer.end > msg.content.num_items * 32
    /\ msg.content.num_items >= 1
    /\ Len(writer.sizes) >= 3

(***************************************************************************)
(* C4: alignment.  The write primitives tile the envelope, each ends at a  *)
(* multiple of 4 from the envelope start, and a padded payload of length n *)
(* is followed by exactly (4 - n mod 4) mod 4 zero bytes.                  *)
(***************************************************************************)
C4_Alignment ==
    Written =>
        /\ writer.marks[1].from = 0
        /\ writer.marks[Len(writer.marks)].to = writer.ptr
        /\ \A i \in 1..Len(writer.marks) :
              LET k == writer.marks[i]
              IN  /\ k.to % 4 = 0
                  /\ (i > 1 => k.from = writer.marks[i - 1].to)
                  /\ k.prim = "padded" =>
                        /\ k.to - k.from = k.len + ((4 - (k.len % 4)) % 4)
                        /\ \A j \in (k.from + k.len + 1)..k.to : writer.mem[j] = 0

C4_Witness ==
    /\ pc = "serialized"
    /\ \E i \in 1..Len(writer.marks) :
          writer.marks[i].prim = "padded" /\ writer.marks[i].len % 4 = 3
    /\ \E i \in 1..Len(writer.marks) :
          writer.marks[i].prim = "padded" /\ writer.marks[i].len % 4 = 0

(***************************************************************************)
(* C5: envelope framing.  COMPLEX is set iff a port was collected.  With   *)
(* no port, size is sizeof(header) + content bytes and the envelope starts *)
(* after the header; with n > 0 ports, size is sizeof(header) +            *)
(* sizeof(body) + n * sizeof(port descriptor) + content bytes,             *)
(* descriptor_count is n and the envelope starts after the last            *)
(* descriptor.                                                             *)
(***************************************************************************)
C5_Framing ==
    Sent =>
        LET n == writer.num_ports
            content_bytes == writer.ptr
            at == IF n = 0 THEN SizeofHeader
                  ELSE SizeofHeader + SizeofBody + n * SizeofPortDescriptor
        IN  /\ IsComplex(SubSeq(mach_msg, 1, 4)) <=> n # 0
            /\ msgh_size(mach_msg) = at + content_bytes
            /\ Len(mach_msg) = at + content_bytes
            /\ n # 0 => U32Of(SubSeq(mach_msg, SizeofHeader + 1, SizeofHeader + 4)) = n
            /\ SubSeq(mach_msg, at + 1, at + content_bytes) = writer.mem
            /\ SubSeq(mach_msg, at + 1, at + 8) = Magic

C5_Witness ==
    /\ Sent
    /\ writer.num_ports >= 2
    /\ IsComplex(SubSeq(mach_msg, 1, 4))

(***************************************************************************)
(* C6: dictionary wire order on decode.  The item list of a decoded        *)
(* dictionary has the (key, value) entries in the order they have on the   *)
(* wire, every occurrence of a duplicate key kept.  (The wire order of the *)
(* root dictionary of an unaltered message is the item order of            *)
(* msg.content, lines 191-194.)                                            *)
(***************************************************************************)
C6_WireOrder ==
    (pc = "done" /\ tamper = NoTamper /\ result.ret = "msg")
        => LET decoded == result.msg[1].content.items
               wire == msg.content.items
           IN  /\ Len(decoded) = Len(wire)
               /\ \A i \in 1..Len(wire) : decoded[i].key = wire[i].key

(***************************************************************************)
(* C7: truncated input is a recoverable decode error.  When a read would   *)
(* advance the reader past message + msgh_size, spc_deserialize returns to *)
(* its caller; the process is not terminated.                              *)
(***************************************************************************)
C7_OverrunReturns ==
    (pc = "done" /\ reader.overrun) => result.ret \notin {"abort", "exit", "segv"}

(***************************************************************************)
(* C7, amended: truncated input is fatal.  When a read would advance the   *)
(* reader past message + msgh_size, spc_read calls abort(): the process is *)
(* terminated inside spc_deserialize, no message is returned and the       *)
(* cursor stays within the message.                                        *)
(***************************************************************************)
C7_OverrunAborts ==
    (pc = "done" /\ reader.overrun)
        => (result.ret = "abort" /\ result.msg = <<>> /\ reader.ptr <= reader.end)

C7_Witness ==
    /\ pc = "done"
    /\ tamper.kind = "truncate"
    /\ reader.overrun
    /\ reader.ptr > SizeofHeader + 8

(***************************************************************************)
(* C8: header field mapping on decode.  The returned message has           *)
(* remote_port.name = msgh_remote_port, local_port.name = msgh_local_port, *)
(* id = msgh_id, and the port types are the remote and local dispositions  *)
(* of msgh_bits.                                                           *)
(***************************************************************************)
C8_HeaderFields ==
    (pc = "done" /\ result.ret = "msg")
        => LET m == result.msg[1]
               bits == SubSeq(mach_msg, 1, 4)
           IN  /\ m.remote_port.name = SubSeq(mach_msg, 9, 12)
               /\ m.local_port.name = SubSeq(mach_msg, 13, 16)
               /\ m.id = U32Of(SubSeq(mach_msg, 21, 24))
               /\ m.remote_port.type = MACH_MSGH_BITS_REMOTE(bits)
               /\ m.local_port.type = MACH_MSGH_BITS_LOCAL(bits)

(***************************************************************************)
(* C9: resource release.  When spc_serialize has returned, only the        *)
(* returned message is allocated; when spc_deserialize has returned, only  *)
(* that, the returned message and its value tree are.                      *)
(***************************************************************************)
C9_Released ==
    /\ pc = "serialized" => heap \subseteq {"mach_msg"}
    /\ Returned => heap \subseteq {"mach_msg", "msg", "msg.content"}

(***************************************************************************)
(* C10: decoder memory safety.  Every byte spc_deserialize and its helpers *)
(* load lies in [message, message + msgh_size), the cursor never exceeds   *)
(* that end, and the result of spc_read_str is a string when it is copied. *)
(***************************************************************************)
C10_MemorySafe ==
    pc = "done" => (~reader.oob /\ reader.ptr <= reader.end /\ reader.st # "segv")

====
